---- MODULE Spec2Model ----
(***************************************************************************)
(* Model of simple_multi_machine_subscriber.py: the global registry        *)
(* `machines` guarded by `machines_lock`, the MQTT message callback        *)
(* MachineStatusSubscriber._on_message, the background thread              *)
(* MachineStatusSubscriber._offline_detector, start()/stop(), and the      *)
(* query function get_machine_status.                                      *)
(*                                                                         *)
(* JSON values are tagged records, so that the type tests Python performs  *)
(* implicitly (a .get on something that is not a dict raises, a format     *)
(* of something that is not a number raises) can be computed.              *)
(***************************************************************************)
EXTENDS Integers, Sequences, FiniteSets, TLC

\* ------------------------------------------------------------------ bounds

\* datetime.now() ranges over 0..MaxTime
MaxTime == 4
\* the offline_threshold constructor argument ranges over 1..MaxThreshold
MaxThreshold == 2

\* ------------------------------------------------------------- JSON values

JStr(s) == [t |-> "str", s |-> s]
JNum(n) == [t |-> "num", n |-> n]
JObj(f) == [t |-> "obj", o |-> f]
JList(l) == [t |-> "list", l |-> l]
JNull == [t |-> "null"]
\* payload bytes that are not a JSON document
Garbage == [t |-> "garbage"]

EmptyObj == JObj(<<>>)

\* f extended/overridden with the pair k -> v
Put(f, k, v) == [x \in DOMAIN f \cup {k} |-> IF x = k THEN v ELSE f[x]]

\* json.loads(msg.payload.decode('utf-8')): raises json.JSONDecodeError on
\* bytes that are no JSON document, returns the decoded value otherwise
LoadsRaises(payload) == payload.t = "garbage"

\* d.get(key, default) for a dict d
DictGet(d, key, default) == IF key \in DOMAIN d.o THEN d.o[key] ELSE default

\* d.get(...) raises AttributeError unless d is a dict
IsDict(d) == d.t = "obj"

\* v == s for a Python str s: a value of another type is never equal to it
IsStr(v, s) == v.t = "str" /\ v.s = s

\* `'machine_id' in data`: key membership for a dict, element membership for
\* a list, substring test for a str, TypeError for a number or null
\* (the only str payloads drawn are "machine_id" itself and strings that do
\* not contain it)
HasMachineId(data) ==
    CASE data.t = "obj" -> IF "machine_id" \in DOMAIN data.o THEN "yes" ELSE "no"
      [] data.t = "list" ->
            IF \E i \in DOMAIN data.l : IsStr(data.l[i], "machine_id")
            THEN "yes" ELSE "no"
      [] data.t = "str" -> IF data.s = "machine_id" THEN "yes" ELSE "no"
      [] OTHER -> "raise"

\* a dict key must be hashable: a list or a dict as key raises TypeError
Hashable(v) == v.t \notin {"obj", "list"}

\* f"{x:.1f}" raises unless x is a number
FormatsAsFloat(v) == v.t = "num"

\* ---------------------------------------------------------------- records

\* data.get(k, {}) of lines 103-115
Sub(data, k) == DictGet(data, k, EmptyObj)

\* The dict display of lines 99-119 raises AttributeError when cpu, memory or
\* storage is present in the payload and is not a dict
BuildRaises(data) == \E k \in {"cpu", "memory", "storage"} : ~IsDict(Sub(data, k))

\* Mutant: an absent hostname is stored as the empty string
MutSnapshotOfEmptyHostname(data) ==
    [hostname |-> DictGet(data, "hostname", JStr("")),
     ip_address |-> DictGet(data, "ip_address", JStr("")),
     cpu |-> [model |-> DictGet(Sub(data, "cpu"), "model", JStr("Unknown")),
              cores |-> DictGet(Sub(data, "cpu"), "cores", JNum(0)),
              usage_percent |-> DictGet(Sub(data, "cpu"), "usage_percent", JNum(0))],
     memory |-> [total |-> DictGet(Sub(data, "memory"), "total", JStr("Unknown")),
                 available |-> DictGet(Sub(data, "memory"), "available", JStr("Unknown")),
                 usage_percent |-> DictGet(Sub(data, "memory"), "usage_percent", JNum(0))],
     storage |-> [total |-> DictGet(Sub(data, "storage"), "total", JStr("Unknown")),
                  free |-> DictGet(Sub(data, "storage"), "free", JStr("Unknown")),
                  usage_percent |-> DictGet(Sub(data, "storage"), "usage_percent", JNum(0))]]

\* The resource fields of the dict display, lines 100-116
SnapshotOf(data) ==
    [hostname |-> DictGet(data, "hostname", JStr("Unknown")),
     ip_address |-> DictGet(data, "ip_address", JStr("")),
     cpu |-> [model |-> DictGet(Sub(data, "cpu"), "model", JStr("Unknown")),
              cores |-> DictGet(Sub(data, "cpu"), "cores", JNum(0)),
              usage_percent |-> DictGet(Sub(data, "cpu"), "usage_percent", JNum(0))],
     memory |-> [total |-> DictGet(Sub(data, "memory"), "total", JStr("Unknown")),
                 available |-> DictGet(Sub(data, "memory"), "available", JStr("Unknown")),
                 usage_percent |-> DictGet(Sub(data, "memory"), "usage_percent", JNum(0))],
     storage |-> [total |-> DictGet(Sub(data, "storage"), "total", JStr("Unknown")),
                  free |-> DictGet(Sub(data, "storage"), "free", JStr("Unknown")),
                  usage_percent |-> DictGet(Sub(data, "storage"), "usage_percent", JNum(0))]]

\* Mutant: the stated online_status is ignored
MutStatusInAlwaysOnline(data) == JStr("online")

\* data.get('online_status', 'online')  (line 117)
StatusIn(data) == DictGet(data, "online_status", JStr("online"))

\* Mutant: last_seen is not taken from the clock
MutBuildRecordNoTime(data, now) ==
    [hostname |-> SnapshotOf(data).hostname,
     ip_address |-> SnapshotOf(data).ip_address,
     cpu |-> SnapshotOf(data).cpu,
     memory |-> SnapshotOf(data).memory,
     storage |-> SnapshotOf(data).storage,
     online_status |-> StatusIn(data),
     last_seen |-> 0]

\* Mutant: last_seen is the timestamp the payload embeds, when it has one
MutBuildRecordPayloadTime(data, now) ==
    [hostname |-> SnapshotOf(data).hostname,
     ip_address |-> SnapshotOf(data).ip_address,
     cpu |-> SnapshotOf(data).cpu,
     memory |-> SnapshotOf(data).memory,
     storage |-> SnapshotOf(data).storage,
     online_status |-> StatusIn(data),
     last_seen |-> DictGet(data, "timestamp", JNum(now)).n]

\* The dict display of lines 99-119, with datetime.now() = now
BuildRecord(data, now) ==
    [hostname |-> SnapshotOf(data).hostname,
     ip_address |-> SnapshotOf(data).ip_address,
     cpu |-> SnapshotOf(data).cpu,
     memory |-> SnapshotOf(data).memory,
     storage |-> SnapshotOf(data).storage,
     online_status |-> StatusIn(data),
     last_seen |-> now]

\* Mutant: an existing record is kept (first write wins)
MutUpsertKeepFirst(ms, id, rec) == IF id \in DOMAIN ms THEN ms ELSE Put(ms, id, rec)

\* Mutant: the dict is rebound to one holding only the new record
MutUpsertRebind(ms, id, rec) == [x \in {id} |-> rec]

\* machines[machine_id] = record  (line 99)
Upsert(ms, id, rec) == Put(ms, id, rec)

\* Mutant: the status update is applied to every record
MutSetStatusAll(ms, id, status) ==
    [k \in DOMAIN ms |-> [ms[k] EXCEPT !.online_status = status]]

\* Mutant: the status update also resets last_seen
MutSetStatusResetsLastSeen(ms, id, status) ==
    [ms EXCEPT ![id].online_status = status, ![id].last_seen = 0]

\* machines[machine_id]['online_status'] = status  (lines 89, 167)
SetStatus(ms, id, status) == [ms EXCEPT ![id].online_status = status]

\* _print_machine_update raises when a usage_percent does not format as .1f
PrintRaises(machine) ==
    \/ ~FormatsAsFloat(machine.cpu.usage_percent)
    \/ ~FormatsAsFloat(machine.memory.usage_percent)
    \/ ~FormatsAsFloat(machine.storage.usage_percent)

\* Mutant: the threshold test is not strict
MutStaleInclusive(machine, now, threshold) ==
    /\ ~IsStr(machine.online_status, "offline")
    /\ now - machine.last_seen >= threshold

\* Mutant: the status is not tested
MutStaleIgnoresStatus(machine, now, threshold) ==
    now - machine.last_seen > threshold

\* The test of lines 163-165 for one record at the sweep's `now`
Stale(machine, now, threshold) ==
    /\ ~IsStr(machine.online_status, "offline")
    /\ now - machine.last_seen > threshold

\* The ids the loop of lines 162-167 marks offline
StaleIds(ms, now, threshold) == {k \in DOMAIN ms : Stale(ms[k], now, threshold)}

\* Mutant: marking a record offline also refreshes its last_seen
MutSweptRefreshes(ms, now, threshold) ==
    [k \in DOMAIN ms |->
        IF Stale(ms[k], now, threshold)
        THEN [ms[k] EXCEPT !.online_status = JStr("offline"), !.last_seen = now]
        ELSE ms[k]]

\* The registry after the loop of lines 162-167
Swept(ms, now, threshold) ==
    [k \in DOMAIN ms |->
        IF Stale(ms[k], now, threshold)
        THEN [ms[k] EXCEPT !.online_status = JStr("offline")]
        ELSE ms[k]]

\* Mutant: an unknown id yields a record of defaults
MutReadOneZeroRecord(ms, id) ==
    IF id \in DOMAIN ms THEN [kind |-> "dict", val |-> ms[id]]
    ELSE [kind |-> "dict", val |-> BuildRecord(EmptyObj, 0)]

\* machines.get(machine_id, {}).copy()  (line 263): a dict in either case
ReadOne(ms, id) == IF id \in DOMAIN ms THEN [kind |-> "dict", val |-> ms[id]]
                   ELSE [kind |-> "dict", val |-> <<>>]

\* machines.copy()  (line 266)
ReadAll(ms) == [kind |-> "dict", val |-> ms]

\* ------------------------------------------------------------------ inputs

Ids == {"m1", "m2"}

Host(id) == IF id = "m1" THEN "alpha" ELSE "beta"

\* A report as machine_status_publisher.py builds it: every field present,
\* an embedded timestamp ts, no online_status
FullReport(id, usage, ts) ==
    JObj([machine_id |-> JStr(id),
          hostname |-> JStr(Host(id)),
          ip_address |-> JStr("10.0.0.1"),
          cpu |-> JObj([model |-> JStr("x86"), cores |-> JNum(4),
                        usage_percent |-> JNum(usage)]),
          memory |-> JObj([total |-> JStr("16GB"), available |-> JStr("8GB"),
                           usage_percent |-> JNum(50)]),
          storage |-> JObj([total |-> JStr("1TB"), free |-> JStr("512GB"),
                            usage_percent |-> JNum(50)]),
          timestamp |-> JNum(ts)])

\* A report with nothing but the machine_id
MinReport(id) == JObj([machine_id |-> JStr(id)])

\* A report that states online_status
StatedReport(id, status) ==
    JObj([machine_id |-> JStr(id), online_status |-> JStr(status)])

\* A report whose cpu is not an object
BadCpuReport(id) == JObj([machine_id |-> JStr(id), cpu |-> JStr("n/a")])

\* A report whose cpu usage is a string
StrUsageReport(id) ==
    JObj([machine_id |-> JStr(id), cpu |-> JObj([usage_percent |-> JStr("high")])])

\* A report whose machine_id is a list
ListIdReport == JObj([machine_id |-> JList(<<>>)])

\* A report whose hostname is a number
NumHostReport(id) == JObj([machine_id |-> JStr(id), hostname |-> JNum(7)])

\* A report without machine_id
NoIdReport == JObj([hostname |-> JStr("gamma")])

\* {"machine_id": null}
NullIdReport == JObj([machine_id |-> JNull])

\* Payloads that are JSON but no object
NonObjects == {JNum(5), JNull, JList(<<>>), JList(<<JStr("machine_id")>>),
               JStr("machine_id")}

\* {"status": s}
StatusPayload(s) == JObj([status |-> JStr(s)])

Namespace == "machine_status"

GeneralTopics == {<<Namespace, id>> : id \in Ids}
StatusTopics == {<<Namespace, id, "status">> : id \in Ids}

NoMsg == [topic |-> <<>>, payload |-> JNull]

\* ------------------------------------------------------------------- state

AllHandlers == {"h1", "h2"}
AllDetectors == {"d1", "d2"}

VARIABLES
    machines,          \* the global dict `machines`: machine_id -> record
    order,             \* the keys of `machines` in the order a dict iterates:
                       \* the order in which they were first assigned
    lock,              \* machines_lock: "free" or the thread holding it
    clock,             \* what datetime.now() returns
    offline_threshold, \* self.offline_threshold
    running,           \* self.running
    mpc,               \* the thread calling start()/stop(): "idle" | "connecting"
    hpc,               \* per _on_message activation: where it is
    hmsg,              \* per _on_message activation: its msg
    report,            \* per _on_message activation: what it printed for its msg
    replaced,          \* history: what machines held under the id before the
                       \* assignment of line 99, until _on_message returns
    dpc,               \* per _offline_detector thread: where it is
    dnow,              \* per _offline_detector thread: its local `now`
    marked,            \* the ids the running/last sweep printed as marked offline
    rpc,               \* the caller of get_machine_status: where it is
    rarg,              \* the machine_id argument of get_machine_status
    rres,              \* what the caller sees through the value that
                       \* get_machine_status returned
    shared,            \* the machine ids whose dict objects that value shares
                       \* with `machines` (a shallow copy copies references)
    rkeys,             \* the keys of the returned dict in the order it iterates
    spc,               \* the caller of print_all_machines: where it is
    summary,           \* what print_all_machines printed
    connected,         \* self.connected
    looping,           \* the client's network thread runs: between
                       \* loop_start() and loop_stop()
    npc,               \* the network thread's _on_disconnect: where it is
    rc,                \* the rc of the last _on_connect call
    mlast              \* history: the last call of start()/stop() that left
                       \* the subscriber stopped or as it was

vars == <<machines, order, lock, clock, offline_threshold, running, mpc, hpc,
          hmsg, report, replaced, dpc, dnow, marked, rpc, rarg, rres, shared,
          rkeys, spc, summary, connected, looping, npc, rc, mlast>>

hvars == <<hpc, hmsg, report, replaced>>
dvars == <<dpc, dnow, marked>>
rvars == <<rpc, rarg, rres, shared, rkeys>>
svars == <<spc, summary>>
cfgvars == <<offline_threshold, running, mpc>>
netvars == <<connected, looping, npc, rc, mlast>>

\* the machine_id=None default of get_machine_status
None == [t |-> "null"]
NoResult == [kind |-> "none"]
\* `replaced` outside the print stage, and for an id that had no record
NoRecord == [kind |-> "none"]
Absent == [kind |-> "absent"]
\* _on_connect has not been called yet
NoRc == -1
\* print_all_machines has printed nothing yet
NoSummary == [kind |-> "none", rows |-> <<>>]

\* State after module import and MachineStatusSubscriber.__init__
Init ==
    /\ machines = <<>>
    /\ order = <<>>
    /\ lock = "free"
    /\ clock = 0
    /\ offline_threshold \in 1..MaxThreshold
    /\ running = FALSE
    /\ mpc = "idle"
    /\ hpc = [h \in AllHandlers |-> "idle"]
    /\ hmsg = [h \in AllHandlers |-> NoMsg]
    /\ report = [h \in AllHandlers |-> "none"]
    /\ replaced = [h \in AllHandlers |-> NoRecord]
    /\ dpc = [d \in AllDetectors |-> "dead"]
    /\ dnow = [d \in AllDetectors |-> 0]
    /\ marked = {}
    /\ rpc = "idle"
    /\ rarg = None
    /\ rres = NoResult
    /\ shared = {}
    /\ rkeys = <<>>
    /\ spc = "idle"
    /\ summary = NoSummary
    /\ connected = FALSE
    /\ looping = FALSE
    /\ npc = "idle"
    /\ rc = NoRc
    /\ mlast = "none"

\* Time passes
Tick ==
    /\ clock < MaxTime
    /\ clock' = clock + 1
    /\ UNCHANGED <<machines, order, lock, cfgvars, netvars, hvars, dvars, rvars, svars>>

\* ---------------------------------------------------------- iteration order

\* A dict iterates its keys in the order of their first assignment: a new
\* key goes last, an assignment to an existing key keeps its place
KeyAssigned(ord, ms, id) == IF id \in DOMAIN ms THEN ord ELSE Append(ord, id)

\* ------------------------------------------------------- shared references

\* dict.copy() copies one level. The dict of line 266 is new, the records
\* under its keys are the registry's own objects; the record of line 263 is
\* new, its cpu, memory and storage are the registry's own objects. For an
\* id without a record line 263 copies a new empty dict.
SharedAfterRead(ms, arg) ==
    IF arg = None THEN DOMAIN ms
    ELSE IF arg \in DOMAIN ms THEN {arg} ELSE {}

\* What the returned value res shows once item assignments on records
\* (lines 89, 167) have made the registry ms: they show through every record
\* the dict of line 266 still shares; the record of line 263 is a copy and
\* keeps its own items
SeenThrough(res, arg, sh, ms) ==
    IF res.kind = "dict" /\ arg = None
    THEN [kind |-> "dict",
          val |-> [k \in DOMAIN res.val |-> IF k \in sh THEN ms[k] ELSE res.val[k]]]
    ELSE res

\* An item assignment on a record of machines, seen by the holder of a
\* returned value
AssignedInPlace ==
    /\ rres' = SeenThrough(rres, rarg, shared, machines')
    /\ UNCHANGED <<rpc, rarg, shared, rkeys>>

\* machines[id] is bound to a new record (line 99): the record a returned
\* value holds for id is no longer the registry's
Rebound(id) ==
    /\ shared' = shared \ {id}
    /\ UNCHANGED <<rpc, rarg, rres, rkeys>>

\* ------------------------------------------------------------- _on_message

\* len(topic_parts) >= 3 and topic_parts[2] == "status"  (line 82; TLA+
\* sequences count from 1)
IsStatusTopic(topic) == Len(topic) >= 3 /\ topic[3] = "status"

\* topic_parts[1]  (line 83)
TopicId(topic) == JStr(topic[2])

\* data.get('status', 'unknown')  (line 84)
StatusOf(data) == DictGet(data, "status", JStr("unknown"))

\* data.get('machine_id')  (line 95)
PayloadId(data) == DictGet(data, "machine_id", None)

\* _on_message returns (or its except clause has printed `what`)
Finish(h, what) ==
    /\ hpc' = [hpc EXCEPT ![h] = "idle"]
    /\ hmsg' = [hmsg EXCEPT ![h] = NoMsg]
    /\ report' = [report EXCEPT ![h] = what]
    /\ replaced' = [replaced EXCEPT ![h] = NoRecord]

\* The transport calls _on_message(client, userdata, m)
Deliver(h, m) ==
    /\ hpc[h] = "idle"
    /\ hpc' = [hpc EXCEPT ![h] = "recv"]
    /\ hmsg' = [hmsg EXCEPT ![h] = m]
    /\ report' = [report EXCEPT ![h] = "none"]
    /\ UNCHANGED <<machines, order, lock, clock, svars, cfgvars, netvars, replaced, dvars, rvars>>

\* Lines 75-95: decode, split the topic, classify; nothing shared is touched
Dispatch(h) ==
    /\ hpc[h] = "recv"
    /\ LET data == hmsg[h].payload
           topic == hmsg[h].topic
       IN  IF LoadsRaises(data) THEN Finish(h, "decode_error")
           ELSE IF IsStatusTopic(topic)
           THEN IF ~IsDict(data) THEN Finish(h, "error")
                ELSE /\ hpc' = [hpc EXCEPT ![h] = "status_lock"]
                     /\ UNCHANGED <<hmsg, report, replaced>>
           ELSE IF HasMachineId(data) = "raise" THEN Finish(h, "error")
           ELSE IF HasMachineId(data) = "no" THEN Finish(h, "none")
           ELSE IF ~IsDict(data) THEN Finish(h, "error")
           ELSE /\ hpc' = [hpc EXCEPT ![h] = "full_lock"]
                /\ UNCHANGED <<hmsg, report, replaced>>
    /\ UNCHANGED <<machines, order, lock, clock, svars, cfgvars, netvars, dvars, rvars>>

\* `with machines_lock:` is entered  (lines 87, 98)
HAcquire(h) ==
    /\ hpc[h] \in {"status_lock", "full_lock"}
    /\ lock = "free"
    /\ lock' = h
    /\ hpc' = [hpc EXCEPT ![h] = IF hpc[h] = "status_lock" THEN "status_cs" ELSE "full_cs"]
    /\ UNCHANGED <<machines, order, clock, svars, cfgvars, netvars, hmsg, report, replaced, dvars, rvars>>

\* Mutant: the `if machine_id in machines` test is missing
MutUpdateStatusCreates(h) ==
    /\ hpc[h] = "status_cs"
    /\ lock = h
    /\ LET id == TopicId(hmsg[h].topic)
           status == StatusOf(hmsg[h].payload)
       IN  /\ machines' = IF id \in DOMAIN machines
                          THEN SetStatus(machines, id, status)
                          ELSE Put(machines, id, [online_status |-> status])
           /\ order' = KeyAssigned(order, machines, id)
           /\ Finish(h, "status")
    /\ lock' = "free"
    /\ AssignedInPlace
    /\ UNCHANGED <<clock, svars, cfgvars, netvars, dvars>>

\* Lines 88-91, and the lock released on leaving the with block
UpdateStatus(h) ==
    /\ hpc[h] = "status_cs"
    /\ lock = h
    /\ LET id == TopicId(hmsg[h].topic)
           status == StatusOf(hmsg[h].payload)
       IN  IF id \in DOMAIN machines
           THEN /\ machines' = SetStatus(machines, id, status)
                /\ UNCHANGED order
                /\ Finish(h, "status")
           ELSE /\ UNCHANGED <<machines, order>>
                /\ Finish(h, "none")
    /\ lock' = "free"
    /\ AssignedInPlace
    /\ UNCHANGED <<clock, svars, cfgvars, netvars, dvars>>

\* Mutant: the record is stored before its fields are filled in, so that a
\* raise leaves a partial record
MutUpsertSnapshotPartial(h) ==
    /\ hpc[h] = "full_cs"
    /\ lock = h
    /\ LET data == hmsg[h].payload
           id == PayloadId(data)
       IN  IF ~Hashable(id)
           THEN /\ UNCHANGED <<machines, order, rvars>>
                /\ Finish(h, "error")
           ELSE IF BuildRaises(data)
           THEN /\ machines' = Put(machines, id, [hostname |-> DictGet(data, "hostname", JStr("Unknown"))])
                /\ order' = KeyAssigned(order, machines, id)
                /\ Rebound(id)
                /\ Finish(h, "error")
           ELSE /\ machines' = Upsert(machines, id, BuildRecord(data, clock))
                /\ order' = KeyAssigned(order, machines, id)
                /\ Rebound(id)
                /\ hpc' = [hpc EXCEPT ![h] = "print"]
                /\ replaced' = [replaced EXCEPT ![h] = Absent]
                /\ UNCHANGED <<hmsg, report>>
    /\ lock' = "free"
    /\ UNCHANGED <<clock, svars, cfgvars, netvars, dvars>>

\* Mutant: a report does not bring an OFFLINE record back
MutUpsertSnapshotStickyOffline(h) ==
    /\ hpc[h] = "full_cs"
    /\ lock = h
    /\ LET data == hmsg[h].payload
           id == PayloadId(data)
       IN  IF BuildRaises(data) \/ ~Hashable(id)
           THEN /\ UNCHANGED <<machines, order, rvars>>
                /\ Finish(h, "error")
           ELSE /\ machines' =
                     IF id \in DOMAIN machines /\ IsStr(machines[id].online_status, "offline")
                     THEN Upsert(machines, id,
                                 [BuildRecord(data, clock) EXCEPT !.online_status = JStr("offline")])
                     ELSE Upsert(machines, id, BuildRecord(data, clock))
                /\ order' = KeyAssigned(order, machines, id)
                /\ Rebound(id)
                /\ hpc' = [hpc EXCEPT ![h] = "print"]
                /\ replaced' = [replaced EXCEPT ![h] =
                                    IF id \in DOMAIN machines
                                    THEN [kind |-> "record", val |-> machines[id]]
                                    ELSE Absent]
                /\ UNCHANGED <<hmsg, report>>
    /\ lock' = "free"
    /\ UNCHANGED <<clock, svars, cfgvars, netvars, dvars>>

\* Mutant: an exception raised inside the block leaves the lock held
MutUpsertSnapshotHoldsOnRaise(h) ==
    /\ hpc[h] = "full_cs"
    /\ lock = h
    /\ LET data == hmsg[h].payload
           id == PayloadId(data)
       IN  IF BuildRaises(data) \/ ~Hashable(id)
           THEN /\ UNCHANGED <<machines, order, rvars, lock>>
                /\ Finish(h, "error")
           ELSE /\ machines' = Upsert(machines, id, BuildRecord(data, clock))
                /\ order' = KeyAssigned(order, machines, id)
                /\ Rebound(id)
                /\ hpc' = [hpc EXCEPT ![h] = "print"]
                /\ replaced' = [replaced EXCEPT ![h] =
                                    IF id \in DOMAIN machines
                                    THEN [kind |-> "record", val |-> machines[id]]
                                    ELSE Absent]
                /\ UNCHANGED <<hmsg, report>>
                /\ lock' = "free"
    /\ UNCHANGED <<clock, svars, cfgvars, netvars, dvars>>

\* Lines 99-119, and the lock released on leaving the with block (also by
\* an exception raised inside it)
UpsertSnapshot(h) ==
    /\ hpc[h] = "full_cs"
    /\ lock = h
    /\ LET data == hmsg[h].payload
           id == PayloadId(data)
       IN  IF BuildRaises(data) \/ ~Hashable(id)
           THEN /\ UNCHANGED <<machines, order, rvars>>
                /\ Finish(h, "error")
           ELSE /\ machines' = Upsert(machines, id, BuildRecord(data, clock))
                /\ order' = KeyAssigned(order, machines, id)
                /\ Rebound(id)
                /\ hpc' = [hpc EXCEPT ![h] = "print"]
                /\ replaced' = [replaced EXCEPT ![h] =
                                    IF id \in DOMAIN machines
                                    THEN [kind |-> "record", val |-> machines[id]]
                                    ELSE Absent]
                /\ UNCHANGED <<hmsg, report>>
    /\ lock' = "free"
    /\ UNCHANGED <<clock, svars, cfgvars, netvars, dvars>>

\* Line 122: machines[machine_id] is read (the lock is not held) and printed
PrintUpdate(h) ==
    /\ hpc[h] = "print"
    /\ LET id == PayloadId(hmsg[h].payload)
       IN  IF PrintRaises(machines[id]) THEN Finish(h, "error")
           ELSE Finish(h, "update")
    /\ UNCHANGED <<machines, order, lock, clock, svars, cfgvars, netvars, dvars, rvars>>

\* ------------------------------------------------------- _offline_detector

\* Mutant: `now` is not the time of the sweep
MutDCheckOldNow(d) ==
    /\ dpc[d] = "check"
    /\ IF running
       THEN /\ dpc' = [dpc EXCEPT ![d] = "lock"]
            /\ dnow' = [dnow EXCEPT ![d] = 0]
       ELSE /\ dpc' = [dpc EXCEPT ![d] = "dead"]
            /\ UNCHANGED dnow
    /\ UNCHANGED <<machines, order, lock, clock, svars, cfgvars, netvars, hvars, marked, rvars>>

\* `while self.running:` and `now = datetime.now()`  (lines 159-160); the
\* thread ends when running is false
DCheck(d) ==
    /\ dpc[d] = "check"
    /\ IF running
       THEN /\ dpc' = [dpc EXCEPT ![d] = "lock"]
            /\ dnow' = [dnow EXCEPT ![d] = clock]
       ELSE /\ dpc' = [dpc EXCEPT ![d] = "dead"]
            /\ UNCHANGED dnow
    /\ UNCHANGED <<machines, order, lock, clock, svars, cfgvars, netvars, hvars, marked, rvars>>

\* `with machines_lock:` is entered  (line 161)
DAcquire(d) ==
    /\ dpc[d] = "lock"
    /\ lock = "free"
    /\ lock' = d
    /\ dpc' = [dpc EXCEPT ![d] = "cs"]
    /\ UNCHANGED <<machines, order, clock, svars, cfgvars, netvars, hvars, dnow, marked, rvars>>

\* Mutant: the sweep removes the records it finds stale
MutDSweepEvicts(d) ==
    /\ dpc[d] = "cs"
    /\ lock = d
    /\ machines' = [k \in DOMAIN machines \ StaleIds(machines, dnow[d], offline_threshold)
                        |-> machines[k]]
    /\ order' = SelectSeq(order, LAMBDA k :
                              k \notin StaleIds(machines, dnow[d], offline_threshold))
    /\ marked' = StaleIds(machines, dnow[d], offline_threshold)
    /\ lock' = "free"
    /\ dpc' = [dpc EXCEPT ![d] = "sleep"]
    /\ shared' = shared \ StaleIds(machines, dnow[d], offline_threshold)
    /\ UNCHANGED <<clock, svars, cfgvars, netvars, hvars, dnow, rpc, rarg, rres, rkeys>>

\* Mutant: the sweep reads the time when it holds the lock
MutDSweepLateNow(d) ==
    /\ dpc[d] = "cs"
    /\ lock = d
    /\ machines' = Swept(machines, clock, offline_threshold)
    /\ UNCHANGED order
    /\ marked' = StaleIds(machines, clock, offline_threshold)
    /\ lock' = "free"
    /\ dpc' = [dpc EXCEPT ![d] = "sleep"]
    /\ AssignedInPlace
    /\ UNCHANGED <<clock, svars, cfgvars, netvars, hvars, dnow>>

\* The loop of lines 162-167 over every record, and the lock released
DSweep(d) ==
    /\ dpc[d] = "cs"
    /\ lock = d
    /\ machines' = Swept(machines, dnow[d], offline_threshold)
    /\ UNCHANGED order
    /\ marked' = StaleIds(machines, dnow[d], offline_threshold)
    /\ lock' = "free"
    /\ dpc' = [dpc EXCEPT ![d] = "sleep"]
    /\ AssignedInPlace
    /\ UNCHANGED <<clock, svars, cfgvars, netvars, hvars, dnow>>

\* time.sleep(5) returns  (line 170)
DWake(d) ==
    /\ dpc[d] = "sleep"
    /\ dpc' = [dpc EXCEPT ![d] = "check"]
    /\ marked' = {}
    /\ dnow' = [dnow EXCEPT ![d] = 0]
    /\ UNCHANGED <<machines, order, lock, clock, svars, cfgvars, netvars, hvars, rvars>>

\* ------------------------------------------------------------ start / stop

\* start(), lines 176-179: not running, so running is set; a detector
\* thread can be created only while a thread slot of D is unused
StartBegin(D) ==
    /\ mpc = "idle"
    /\ ~running
    /\ \E d \in D : dpc[d] = "dead"
    /\ running' = TRUE
    /\ mpc' = "connecting"
    /\ UNCHANGED <<machines, order, lock, clock, svars, offline_threshold, hvars, dvars, rvars,
                   netvars>>

\* start(), lines 182-194: the connect succeeded, the network thread and
\* the detector thread start
StartConnected(D) ==
    /\ mpc = "connecting"
    /\ LET d == CHOOSE x \in D : dpc[x] = "dead"
       IN  dpc' = [dpc EXCEPT ![d] = "check"]
    /\ mpc' = "idle"
    /\ looping' = TRUE
    /\ UNCHANGED <<machines, order, lock, clock, svars, offline_threshold, running, hvars,
                   dnow, marked, rvars, connected, npc, rc, mlast>>

\* Mutant: a connect that raised leaves running set
MutStartFailedKeepsRunning(note) ==
    /\ mpc = "connecting"
    /\ mpc' = "idle"
    /\ mlast' = note
    /\ UNCHANGED <<machines, order, lock, clock, svars, offline_threshold, running, hvars,
                   dvars, rvars, connected, looping, npc, rc>>

\* start(), lines 195-197: the connect of line 182 raised; `note` is what
\* the history keeps of it
StartFailedNoting(note) ==
    /\ mpc = "connecting"
    /\ running' = FALSE
    /\ mpc' = "idle"
    /\ mlast' = note
    /\ UNCHANGED <<machines, order, lock, clock, svars, offline_threshold, hvars, dvars, rvars,
                   connected, looping, npc, rc>>

\* start(), lines 195-197, with no history kept
StartFailed == StartFailedNoting(mlast)

\* start() called while running: the return of lines 176-177
StartReturns ==
    /\ mpc = "idle"
    /\ running
    /\ mlast' = "start_noop"
    /\ UNCHANGED <<machines, order, lock, clock, svars, cfgvars, hvars, dvars, rvars,
                   connected, looping, npc, rc>>

\* stop() called while not running: the return of lines 203-204
StopReturns ==
    /\ mpc = "idle"
    /\ ~running
    /\ mlast' = "stop_noop"
    /\ UNCHANGED <<machines, order, lock, clock, svars, cfgvars, hvars, dvars, rvars,
                   connected, looping, npc, rc>>

\* client.disconnect() of line 209, called when connected: the transport
\* may call _on_disconnect in the calling thread, where running is false
\* (line 134 and no reconnect), or may not call it
DisconnectCalled ==
    IF connected THEN connected' \in {TRUE, FALSE} ELSE UNCHANGED connected

\* stop(), lines 203-209, while the network thread is in no callback, so
\* that the join of loop_stop() returns at once
Stop ==
    /\ mpc = "idle"
    /\ running
    /\ npc = "idle"
    /\ running' = FALSE
    /\ looping' = FALSE
    /\ DisconnectCalled
    /\ UNCHANGED <<machines, order, lock, clock, svars, offline_threshold, mpc, hvars, dvars, rvars,
                   npc, rc, mlast>>

\* stop(), lines 203-206: running is cleared
StopBegin ==
    /\ mpc = "idle"
    /\ running
    /\ running' = FALSE
    /\ mpc' = "stopping"
    /\ UNCHANGED <<machines, order, lock, clock, svars, offline_threshold, hvars, dvars, rvars,
                   netvars>>

\* stop(), lines 207-209: loop_stop() joins the network thread, which
\* ends when it is in no callback; then the disconnect
StopEnd ==
    /\ mpc = "stopping"
    /\ npc = "idle"
    /\ looping' = FALSE
    /\ DisconnectCalled
    /\ mpc' = "idle"
    /\ UNCHANGED <<machines, order, lock, clock, svars, offline_threshold, running, hvars, dvars,
                   rvars, npc, rc, mlast>>

\* ------------------------------------------- _on_connect / _on_disconnect

\* The network thread calls _on_connect(client, userdata, flags, r),
\* lines 61-67
OnConnect(r) ==
    /\ looping
    /\ npc = "idle"
    /\ rc' = r
    /\ connected' = IF r = 0 THEN TRUE ELSE connected
    /\ UNCHANGED <<machines, order, lock, clock, svars, cfgvars, hvars, dvars, rvars,
                   looping, npc, mlast>>

\* The network thread calls _on_disconnect(client, userdata, rc)
DiscCall ==
    /\ looping
    /\ npc = "idle"
    /\ npc' = "disc"
    /\ UNCHANGED <<machines, order, lock, clock, svars, cfgvars, hvars, dvars, rvars,
                   connected, looping, rc, mlast>>

\* Lines 133-136: connected is cleared and running is tested
DiscTest ==
    /\ npc = "disc"
    /\ connected' = FALSE
    /\ npc' = IF running THEN "reconnect" ELSE "idle"
    /\ UNCHANGED <<machines, order, lock, clock, svars, cfgvars, hvars, dvars, rvars,
                   looping, rc, mlast>>

\* Lines 137-140: client.reconnect() is called; it returns or its
\* exception is printed
DiscReconnect ==
    /\ npc = "reconnect"
    /\ npc' = "idle"
    /\ UNCHANGED <<machines, order, lock, clock, svars, cfgvars, hvars, dvars, rvars,
                   connected, looping, rc, mlast>>

\* ------------------------------------------------------ get_machine_status

\* get_machine_status(arg) is called
RCall(arg) ==
    /\ rpc = "idle"
    /\ rpc' = "lock"
    /\ rarg' = arg
    /\ rres' = NoResult
    /\ shared' = {}
    /\ rkeys' = <<>>
    /\ UNCHANGED <<machines, order, lock, clock, svars, cfgvars, netvars, hvars, dvars>>

\* `with machines_lock:` is entered  (line 261)
RAcquire ==
    /\ rpc = "lock"
    /\ lock = "free"
    /\ lock' = "reader"
    /\ rpc' = "cs"
    /\ UNCHANGED <<machines, order, clock, svars, cfgvars, netvars, hvars, dvars, rarg, rres, shared, rkeys>>

\* Lines 262-266: the copy is returned and the lock released
RRead ==
    /\ rpc = "cs"
    /\ lock = "reader"
    /\ rres' = IF rarg # None THEN ReadOne(machines, rarg) ELSE ReadAll(machines)
    /\ shared' = SharedAfterRead(machines, rarg)
    /\ rkeys' = IF rarg # None THEN <<>> ELSE order
    /\ lock' = "free"
    /\ rpc' = "idle"
    /\ UNCHANGED <<machines, order, clock, svars, cfgvars, netvars, hvars, dvars, rarg>>

\* ------------------------------------------------------ print_all_machines

\* Python orders str values by code point: an upper-case letter comes before
\* every lower-case one. The rank of each hostname the inputs use.
StrRank(str) ==
    CASE str = "" -> 0
      [] str = "Unknown" -> 1
      [] str = "alpha" -> 2
      [] str = "beta" -> 3
      [] str = "gamma" -> 4
      [] OTHER -> 5

\* a < b raises TypeError unless both are str or both are numbers
Comparable(a, b) == a.t = b.t /\ a.t \in {"str", "num"}

\* a < b for comparable a and b
Less(a, b) == IF a.t = "num" THEN a.n < b.n ELSE StrRank(a.s) < StrRank(b.s)

\* sorted() is stable: k goes after every element whose key is not greater
InsertStable(sorted, k, ms) ==
    LET pos == Cardinality({i \in 1..Len(sorted) :
                               ~Less(ms[k].hostname, ms[sorted[i]].hostname)})
    IN  SubSeq(sorted, 1, pos) \o <<k>> \o SubSeq(sorted, pos + 1, Len(sorted))

RECURSIVE SortedByHostname(_, _)
\* Mutant: the items are not sorted
MutSortedAsInserted(ord, ms) == ord

\* sorted(machines.items(), key=lambda x: x[1]['hostname'])  (line 226), the
\* items taken in the dict's iteration order
SortedByHostname(ord, ms) ==
    IF Len(ord) = 0 THEN <<>>
    ELSE InsertStable(SortedByHostname(SubSeq(ord, 1, Len(ord) - 1), ms),
                      ord[Len(ord)], ms)

\* sorted() raises when it compares two hostnames that are not comparable
\* (with at most two records it compares every pair)
SortRaises(ms) ==
    \E j, k \in DOMAIN ms : ~Comparable(ms[j].hostname, ms[k].hostname)

\* Lines 240-245
StatusLabel(status) ==
    IF IsStr(status, "online") THEN "ONLINE"
    ELSE IF IsStr(status, "offline") THEN "OFFLINE"
    ELSE "UNKNOWN"

\* The line `hostname (ip)` and the Status line of one record  (247-248)
Row(ms, k) == [id |-> k, hostname |-> ms[k].hostname,
               status |-> StatusLabel(ms[k].online_status)]

\* The index in the sorted items of the first record whose line 249 raises
\* (a usage_percent that does not format as .1f), 0 if there is none
FirstRaising(sorted, ms) ==
    IF \E i \in 1..Len(sorted) : PrintRaises(ms[sorted[i]])
    THEN CHOOSE i \in 1..Len(sorted) :
            /\ PrintRaises(ms[sorted[i]])
            /\ \A j \in 1..(i - 1) : ~PrintRaises(ms[sorted[j]])
    ELSE 0

\* What lines 217-252 print for the registry ms iterated in order ord: the
\* rows in sorted order, up to and with the first one whose line 249 raises
Summary(ord, ms) ==
    IF DOMAIN ms = {} THEN [kind |-> "empty", rows |-> <<>>]
    ELSE IF SortRaises(ms) THEN [kind |-> "raised", rows |-> <<>>]
    ELSE LET sorted == SortedByHostname(ord, ms)
             stop == FirstRaising(sorted, ms)
         IN  IF stop = 0
             THEN [kind |-> "listed",
                   rows |-> [i \in 1..Len(sorted) |-> Row(ms, sorted[i])]]
             ELSE [kind |-> "raised",
                   rows |-> [i \in 1..stop |-> Row(ms, sorted[i])]]

\* print_all_machines() is called
SCall ==
    /\ spc = "idle"
    /\ spc' = "lock"
    /\ summary' = NoSummary
    /\ UNCHANGED <<machines, order, lock, clock, cfgvars, netvars, hvars, dvars, rvars>>

\* `with machines_lock:` is entered  (line 216)
SAcquire ==
    /\ spc = "lock"
    /\ lock = "free"
    /\ lock' = "reporter"
    /\ spc' = "cs"
    /\ UNCHANGED <<machines, order, clock, cfgvars, netvars, hvars, dvars, rvars, summary>>

\* Lines 217-252, and the lock released on leaving the with block: by the
\* early return, at the end, or by an exception
SPrint ==
    /\ spc = "cs"
    /\ lock = "reporter"
    /\ summary' = Summary(order, machines)
    /\ lock' = "free"
    /\ spc' = "idle"
    /\ UNCHANGED <<machines, order, clock, cfgvars, netvars, hvars, dvars, rvars>>

\* ------------------------------------------- the holder of a returned value

\* The caller of get_machine_status assigns an item of a record it was
\* returned: result[k]['online_status'] = s on the dict of line 266, which
\* holds the registry's record while it is shared, or
\* result['online_status'] = s on the record copy of line 263
CallerSetStatus(k, s) ==
    /\ rpc = "idle"
    /\ rres.kind = "dict"
    /\ IF rarg = None
       THEN /\ k \in DOMAIN rres.val
            /\ rres' = [rres EXCEPT !.val[k].online_status = s]
            /\ machines' = IF k \in shared
                           THEN [machines EXCEPT ![k].online_status = s]
                           ELSE machines
       ELSE /\ k = rarg
            /\ DOMAIN rres.val # {}
            /\ rres' = [rres EXCEPT !.val.online_status = s]
            /\ UNCHANGED machines
    /\ UNCHANGED <<order, lock, clock, svars, cfgvars, netvars, hvars, dvars, rpc, rarg, shared, rkeys>>

\* The caller assigns an item of a nested descriptor:
\* result[k]['cpu']['usage_percent'] = v, or result['cpu']['usage_percent'] = v
\* on the record copy of line 263, whose cpu is the registry's while shared
CallerSetUsage(k, v) ==
    /\ rpc = "idle"
    /\ rres.kind = "dict"
    /\ IF rarg = None
       THEN /\ k \in DOMAIN rres.val
            /\ rres' = [rres EXCEPT !.val[k].cpu.usage_percent = v]
       ELSE /\ k = rarg
            /\ DOMAIN rres.val # {}
            /\ rres' = [rres EXCEPT !.val.cpu.usage_percent = v]
    /\ machines' = IF k \in shared
                   THEN [machines EXCEPT ![k].cpu.usage_percent = v]
                   ELSE machines
    /\ UNCHANGED <<order, lock, clock, svars, cfgvars, netvars, hvars, dvars, rpc, rarg, shared, rkeys>>

\* ----------------------------------------------------------- specification

\* Status-topic payloads: a stated status, no status, no object, no JSON
StatusPayloads ==
    {StatusPayload("online"), StatusPayload("offline"), EmptyObj, JList(<<>>), Garbage}

\* Every kind of payload on the general topics
GeneralPayloads ==
    {FullReport(id, 10, 2) : id \in Ids} \cup {FullReport(id, 90, 1) : id \in Ids}
    \cup {MinReport(id) : id \in Ids}
    \cup {StatedReport(id, "offline") : id \in Ids}
    \cup {BadCpuReport(id) : id \in Ids}
    \cup {StrUsageReport(id) : id \in Ids}
    \cup {NoIdReport, ListIdReport, Garbage} \cup NonObjects

\* Every message: the topic's machine id is independent of the payload's
Messages ==
    [topic : GeneralTopics, payload : GeneralPayloads]
    \cup [topic : StatusTopics, payload : StatusPayloads]

\* The messages of the timed specification: reports for both machines, and
\* for m1 a report that states its status and the status-only messages
TimedMessages ==
    {[topic |-> <<Namespace, id>>, payload |-> MinReport(id)] : id \in Ids}
    \cup {[topic |-> <<Namespace, "m1">>, payload |-> StatedReport("m1", "offline")]}
    \cup [topic : {<<Namespace, "m1", "status">>},
          payload : {StatusPayload("online"), StatusPayload("offline"), EmptyObj}]

\* The messages of the concurrent specification: reports for distinct ids
\* and status-only messages
ConcMessages ==
    {[topic |-> <<Namespace, id>>, payload |-> FullReport(id, 10, 2)] : id \in Ids}
    \cup {[topic |-> <<Namespace, id>>, payload |-> MinReport(id)] : id \in Ids}
    \cup [topic : StatusTopics, payload : {StatusPayload("offline")}]

HandlerStep(H, M) ==
    \E h \in H :
        \/ \E m \in M : Deliver(h, m)
        \/ Dispatch(h)
        \/ HAcquire(h)
        \/ UpdateStatus(h)
        \/ UpsertSnapshot(h)
        \/ PrintUpdate(h)

DetectorStep(D) ==
    \E d \in D : DCheck(d) \/ DAcquire(d) \/ DSweep(d) \/ DWake(d)

LifecycleStep(D) ==
    StartBegin(D) \/ StartConnected(D) \/ StartFailed \/ Stop

ReaderStep(A) ==
    (\E arg \in A : RCall(arg)) \/ RAcquire \/ RRead

\* One message callback, the offline detector and the clock
Next ==
    \/ Tick
    \/ HandlerStep({"h1"}, TimedMessages)
    \/ DetectorStep({"d1"})
    \/ LifecycleStep({"d1"})

Spec == Init /\ [][Next]_vars

\* One message callback fed every kind of message, and a caller of
\* get_machine_status(machine_id)
NextDispatch ==
    \/ HandlerStep({"h1"}, Messages)
    \/ ReaderStep({JStr(id) : id \in Ids})

\* No action of the untimed specifications reads offline_threshold
InitUntimed == Init /\ offline_threshold = 1

SpecDispatch == InitUntimed /\ [][NextDispatch]_vars

\* Two concurrently running message callbacks and a caller of
\* get_machine_status()
NextConc ==
    \/ HandlerStep(AllHandlers, ConcMessages)
    \/ ReaderStep({None})

SpecConc == InitUntimed /\ [][NextConc]_vars

\* The messages of the specification with shared references: reports and
\* status-only messages for one machine
AliasMessages ==
    {[topic |-> <<Namespace, "m1">>, payload |-> MinReport("m1")]}
    \cup [topic : {<<Namespace, "m1", "status">>},
          payload : {StatusPayload("offline")}]

CallerStep(K) ==
    \E k \in K : CallerSetStatus(k, JStr("maintenance")) \/ CallerSetUsage(k, JNum(99))

\* One message callback, the offline detector, the clock, and a caller of
\* get_machine_status that uses the value it was returned
NextAlias ==
    \/ Tick
    \/ HandlerStep({"h1"}, AliasMessages)
    \/ DetectorStep({"d1"})
    \/ LifecycleStep({"d1"})
    \/ ReaderStep({None, JStr("m1")})
    \/ CallerStep({JStr("m1")})

SpecAlias == InitUntimed /\ [][NextAlias]_vars

\* The messages of the specification with fair scheduling: the reports
\* and the status-only updates of one machine
LiveMessages ==
    {[topic |-> <<Namespace, "m1">>, payload |-> MinReport("m1")]}
    \cup {[topic |-> <<Namespace, "m1", "status">>, payload |-> StatusPayload("online")]}

NextLive ==
    \/ Tick
    \/ HandlerStep({"h1"}, LiveMessages)
    \/ DetectorStep({"d1"})
    \/ LifecycleStep({"d1"})

\* Time advances; the detector thread and a callback inside its with block
\* run when they can (the interpreter switches threads); the detector
\* waiting for machines_lock gets it when it is free again and again.
\* Messages arrive, and start() and stop() are called, or not.
Fairness ==
    /\ WF_vars(Tick)
    /\ WF_vars(DCheck("d1"))
    /\ SF_vars(DAcquire("d1"))
    /\ WF_vars(DSweep("d1"))
    /\ WF_vars(DWake("d1"))
    /\ WF_vars(UpdateStatus("h1"))
    /\ WF_vars(UpsertSnapshot("h1"))

SpecLive == Init /\ [][NextLive]_vars /\ Fairness

\* The messages of the specification of start() and stop()
StopMessages ==
    {[topic |-> <<Namespace, "m1">>, payload |-> MinReport("m1")],
     [topic |-> <<Namespace, "m1", "status">>, payload |-> StatusPayload("online")]}

\* start() and stop() called in any order, with every detector thread that
\* start() has created: a thread of an earlier start() may still be alive
\* at the next one
NextStop ==
    \/ Tick
    \/ HandlerStep({"h1"}, StopMessages)
    \/ DetectorStep(AllDetectors)
    \/ LifecycleStep(AllDetectors)

\* As Fairness, for both detector threads
FairnessStop ==
    /\ Fairness
    /\ WF_vars(DCheck("d2"))
    /\ SF_vars(DAcquire("d2"))
    /\ WF_vars(DSweep("d2"))
    /\ WF_vars(DWake("d2"))

SpecStop == Init /\ [][NextStop]_vars /\ FairnessStop

\* The messages of the specification of concurrent timed ingestion: two
\* reports for one machine, the later-built one (embedded timestamp 2) and
\* an earlier-built one (embedded timestamp 1), and a status-only message
IngestMessages ==
    {[topic |-> <<Namespace, "m1">>, payload |-> FullReport("m1", 10, 2)],
     [topic |-> <<Namespace, "m1">>, payload |-> FullReport("m1", 90, 1)],
     [topic |-> <<Namespace, "m1", "status">>, payload |-> StatusPayload("offline")]}

\* The message of the second callback: the later-built report
LaterReport ==
    {[topic |-> <<Namespace, "m1">>, payload |-> FullReport("m1", 10, 2)]}

\* Two concurrently running message callbacks, the offline detector and
\* the clock
NextIngest ==
    \/ Tick
    \/ HandlerStep({"h1"}, IngestMessages)
    \/ HandlerStep({"h2"}, LaterReport)
    \/ DetectorStep({"d1"})
    \/ LifecycleStep({"d1"})

SpecIngest == InitUntimed /\ [][NextIngest]_vars

ReporterStep == SCall \/ SAcquire \/ SPrint

\* The messages of the specification of iteration order: for each machine
\* a report with its hostname and one without hostname, a report with a
\* number as hostname, a report whose usage is a string, a status-only message
OrderMessages ==
    {[topic |-> <<Namespace, id>>, payload |-> FullReport(id, 10, 2)] : id \in Ids}
    \cup {[topic |-> <<Namespace, id>>, payload |-> MinReport(id)] : id \in Ids}
    \cup {[topic |-> <<Namespace, "m2">>, payload |-> NumHostReport("m2")],
          [topic |-> <<Namespace, "m1">>, payload |-> StrUsageReport("m1")],
          [topic |-> <<Namespace, "m1", "status">>, payload |-> StatusPayload("offline")]}

\* One message callback, a caller of get_machine_status() and a caller of
\* print_all_machines()
NextOrder ==
    \/ HandlerStep({"h1"}, OrderMessages)
    \/ ReaderStep({None})
    \/ ReporterStep

SpecOrder == InitUntimed /\ [][NextOrder]_vars

\* Topics that the subscription machine_status/# delivers: the general
\* topic and the status topic of m1, a topic with a segment after "status",
\* and a three-segment topic that does not end in "status"
TopicForms ==
    {<<Namespace, "m1">>, <<Namespace, "m1", "status">>,
     <<Namespace, "m1", "status", "extra">>, <<Namespace, "m1", "cpu">>}

\* The messages of the specification of topics: on every topic a payload
\* that names m2 as machine_id, one that names m1 and states a status, and
\* a bare status
TopicMessages ==
    [topic : TopicForms,
     payload : {MinReport("m2"),
                JObj([machine_id |-> JStr("m1"), status |-> JStr("offline")]),
                StatusPayload("offline")}]

\* One message callback and a caller of get_machine_status(machine_id)
NextTopics ==
    \/ HandlerStep({"h1"}, TopicMessages)
    \/ ReaderStep({JStr(id) : id \in Ids})

SpecTopics == InitUntimed /\ [][NextTopics]_vars

\* The messages of the specification of the lock: a report that is stored,
\* a report with a number as hostname, reports that raise inside the with
\* block (a cpu that is not an object, a machine_id that is a list), a
\* status-only message
LockMessages ==
    {[topic |-> <<Namespace, "m1">>, payload |-> MinReport("m1")],
     [topic |-> <<Namespace, "m2">>, payload |-> NumHostReport("m2")],
     [topic |-> <<Namespace, "m1">>, payload |-> BadCpuReport("m1")],
     [topic |-> <<Namespace, "x">>, payload |-> ListIdReport],
     [topic |-> <<Namespace, "m1", "status">>, payload |-> StatusPayload("offline")]}

\* Every thread that takes machines_lock: a message callback, the offline
\* detector, a caller of get_machine_status and a caller of
\* print_all_machines
NextLock ==
    \/ HandlerStep({"h1"}, LockMessages)
    \/ DetectorStep({"d1"})
    \/ LifecycleStep({"d1"})
    \/ ReaderStep({None, JStr("m1")})
    \/ ReporterStep

\* A thread inside a with block runs on to the end of the block: nothing
\* in the blocks waits for another thread
FairnessLock ==
    /\ WF_vars(UpdateStatus("h1"))
    /\ WF_vars(UpsertSnapshot("h1"))
    /\ WF_vars(DSweep("d1"))
    /\ WF_vars(RRead)
    /\ WF_vars(SPrint)

SpecLock == InitUntimed /\ [][NextLock]_vars /\ FairnessLock

\* The messages of the specification of the registry's keys: reports whose
\* machine_id is a string and a report whose machine_id is null, a
\* status-only message
KeyMessages ==
    {[topic |-> <<Namespace, id>>, payload |-> FullReport(id, 10, 2)] : id \in Ids}
    \cup {[topic |-> <<Namespace, "m1">>, payload |-> NullIdReport],
          [topic |-> <<Namespace, "m1", "status">>, payload |-> StatusPayload("offline")]}

\* One message callback and a caller of get_machine_status with each
\* machine_id a report can have stored a record under
NextKeys ==
    \/ HandlerStep({"h1"}, KeyMessages)
    \/ ReaderStep({None} \cup {JStr(id) : id \in Ids})

SpecKeys == InitUntimed /\ [][NextKeys]_vars

\* The return codes the broker answers a connect with: accepted, refused
ReturnCodes == {0, 5}

\* start() and stop() called in any state, with the history of the calls
\* that changed nothing or failed, stop() in its two steps, the network
\* thread's connection callbacks, and the detector thread
NextConn ==
    \/ StartBegin({"d1"})
    \/ StartConnected({"d1"})
    \/ StartFailedNoting("connect_failed")
    \/ StartReturns
    \/ StopReturns
    \/ StopBegin
    \/ StopEnd
    \/ \E r \in ReturnCodes : OnConnect(r)
    \/ DiscCall
    \/ DiscTest
    \/ DiscReconnect
    \/ DetectorStep({"d1"})

SpecConn == InitUntimed /\ [][NextConn]_vars

\* ------------------------------------------------------------------ claims

\* The step in which handler h made the assignment of line 99
UpsertStep(h) == hpc[h] = "full_cs" /\ hpc'[h] = "print"

\* The step in which detector d ran the loop of lines 162-167
SweepStep(d) == dpc[d] = "cs" /\ dpc'[d] = "sleep"

\* The step in which get_machine_status returned
ReadStep == rpc = "cs" /\ rpc' = "idle"

\* The machine id and the fields handler h's payload states
MsgId(h) == hmsg[h].payload.o.machine_id
MsgFields(h) == hmsg[h].payload.o

\* The online_status a payload states, ONLINE when it states none
StatedOrOnline(fields) ==
    IF "online_status" \in DOMAIN fields THEN fields.online_status ELSE JStr("online")

\* C1: a sweep leaves untouched every ONLINE record whose elapsed time
\* (the sweep's now minus last_seen) is at most the threshold, and sets to
\* OFFLINE (and reports) every ONLINE record whose elapsed time exceeds it.
C1_SweepThreshold ==
    [][\A d \in AllDetectors : SweepStep(d) =>
        \A k \in DOMAIN machines :
            IsStr(machines[k].online_status, "online") =>
                IF dnow[d] - machines[k].last_seen <= offline_threshold
                THEN machines'[k] = machines[k] /\ k \notin marked'
                ELSE /\ machines'[k] = [machines[k] EXCEPT !.online_status = JStr("offline")]
                     /\ k \in marked']_vars

\* A sweep has marked one record and passed over an ONLINE record whose
\* elapsed time was exactly the threshold
C1_Witness ==
    /\ dpc["d1"] = "sleep"
    /\ marked # {}
    /\ \E k \in DOMAIN machines \ marked :
          /\ IsStr(machines[k].online_status, "online")
          /\ dnow["d1"] - machines[k].last_seen = offline_threshold

\* C2 as stated: a full report for an id without a record creates a record
\* that is ONLINE with last_seen the ingestion time.
C2_Original ==
    [][\A h \in AllHandlers :
        (UpsertStep(h) /\ MsgId(h) \notin DOMAIN machines) =>
            /\ IsStr(machines'[MsgId(h)].online_status, "online")
            /\ machines'[MsgId(h)].last_seen = clock]_vars

\* C2 amended: the record created has last_seen the ingestion time and the
\* online_status the payload states, ONLINE when the payload states none.
C2_CreatedRecord ==
    [][\A h \in AllHandlers :
        (UpsertStep(h) /\ MsgId(h) \notin DOMAIN machines) =>
            /\ MsgId(h) \in DOMAIN machines'
            /\ machines'[MsgId(h)].online_status = StatedOrOnline(MsgFields(h))
            /\ machines'[MsgId(h)].last_seen = clock]_vars

\* A report stating "offline" has just created the first record of its id,
\* at a time after 0
C2_Witness ==
    /\ hpc["h1"] = "print"
    /\ replaced["h1"] = Absent
    /\ clock > 0
    /\ machines[MsgId("h1")].last_seen = clock
    /\ IsStr(machines[MsgId("h1")].online_status, "offline")

\* v is the number n
IsNum(v, n) == v.t = "num" /\ v.n = n

\* The resource fields of a record
Resources(rec) == <<rec.hostname, rec.ip_address, rec.cpu, rec.memory, rec.storage>>

\* C3: each full report processed overwrites the record's resource snapshot
\* with its own (whatever the record held and whatever timestamp either
\* payload embeds), and nothing else changes a record's resource snapshot.
C3_LastWriteWins ==
    [][\A k \in DOMAIN machines' :
        IF \E h \in AllHandlers : UpsertStep(h) /\ MsgId(h) = k
        THEN LET h == CHOOSE x \in AllHandlers : UpsertStep(x) /\ MsgId(x) = k
                 f == MsgFields(h)
             IN  /\ machines'[k].hostname =
                        (IF "hostname" \in DOMAIN f THEN f.hostname ELSE JStr("Unknown"))
                 /\ machines'[k].cpu.usage_percent =
                        (IF "cpu" \in DOMAIN f /\ "usage_percent" \in DOMAIN f.cpu.o
                         THEN f.cpu.o.usage_percent ELSE JNum(0))
        ELSE /\ k \in DOMAIN machines
             /\ Resources(machines'[k]) = Resources(machines[k])]_vars

\* A report with usage 90 and the older embedded timestamp has replaced a
\* record with usage 10, and the registry shows 90
C3_Witness ==
    /\ hpc["h1"] = "print"
    /\ replaced["h1"].kind = "record"
    /\ IsNum(replaced["h1"].val.cpu.usage_percent, 10)
    /\ "timestamp" \in DOMAIN MsgFields("h1")
    /\ IsNum(MsgFields("h1").timestamp, 1)
    /\ IsNum(machines[MsgId("h1")].cpu.usage_percent, 90)

\* C4: under every interleaving of concurrent callbacks, an ingestion adds
\* or replaces exactly the record of its id and leaves every other record
\* as it was, no record is ever dropped, every record holds a report of its
\* own id, and read-all returns exactly the registry's records.
C4_ConcurrentIngestion ==
    [][/\ \A h \in AllHandlers : UpsertStep(h) =>
            /\ DOMAIN machines' = DOMAIN machines \cup {MsgId(h)}
            /\ \A k \in DOMAIN machines \ {MsgId(h)} : machines'[k] = machines[k]
            /\ Resources(machines'[MsgId(h)]) = Resources(SnapshotOf(hmsg[h].payload))
       /\ DOMAIN machines \subseteq DOMAIN machines'
       /\ \A k \in DOMAIN machines' :
            \/ machines'[k].hostname = JStr(Host(k.s))
            \/ machines'[k].hostname = JStr("Unknown")
       /\ (ReadStep /\ rarg = None) =>
            /\ rres'.kind = "dict"
            /\ DOMAIN rres'.val = DOMAIN machines
            /\ \A k \in DOMAIN machines : rres'.val[k] = machines[k]]_vars

\* Both callbacks have ingested a report, for distinct ids, neither has
\* returned yet, and read-all has returned two records
C4_Witness ==
    /\ hpc["h1"] = "print"
    /\ hpc["h2"] = "print"
    /\ MsgId("h1") # MsgId("h2")
    /\ rpc = "idle"
    /\ rres.kind = "dict"
    /\ DOMAIN rres.val = {MsgId("h1"), MsgId("h2")}

C7_OfflineUntouched ==
    [][\A d \in AllDetectors : SweepStep(d) =>
        \A k \in DOMAIN machines :
            IsStr(machines[k].online_status, "offline") =>
                machines'[k] = machines[k] /\ k \notin marked']_vars

\* A sweep has passed over a record that was already OFFLINE and whose
\* elapsed time exceeded the threshold
C7_Witness ==
    /\ dpc["d1"] = "sleep"
    /\ \E k \in DOMAIN machines \ marked :
          /\ IsStr(machines[k].online_status, "offline")
          /\ dnow["d1"] - machines[k].last_seen > offline_threshold

\* C8 as stated: a full report for an id whose record is OFFLINE sets the
\* record ONLINE with last_seen the ingestion time.
C8_Original ==
    [][\A h \in AllHandlers :
        (/\ UpsertStep(h)
         /\ MsgId(h) \in DOMAIN machines
         /\ IsStr(machines[MsgId(h)].online_status, "offline")) =>
            /\ IsStr(machines'[MsgId(h)].online_status, "online")
            /\ machines'[MsgId(h)].last_seen = clock]_vars

\* C8 amended: a full report for an id whose record is OFFLINE sets
\* last_seen to the ingestion time and the status to the online_status the
\* payload states, ONLINE when the payload states none.
C8_ReportAfterOffline ==
    [][\A h \in AllHandlers :
        (/\ UpsertStep(h)
         /\ MsgId(h) \in DOMAIN machines
         /\ IsStr(machines[MsgId(h)].online_status, "offline")) =>
            /\ machines'[MsgId(h)].online_status = StatedOrOnline(MsgFields(h))
            /\ machines'[MsgId(h)].last_seen = clock
            /\ "online_status" \notin DOMAIN MsgFields(h) =>
                   IsStr(machines'[MsgId(h)].online_status, "online")]_vars

\* A report stating no status has replaced an OFFLINE record last seen
\* earlier: the record is ONLINE and last seen now
C8_Witness ==
    /\ hpc["h1"] = "print"
    /\ replaced["h1"].kind = "record"
    /\ IsStr(replaced["h1"].val.online_status, "offline")
    /\ replaced["h1"].val.last_seen < clock
    /\ "online_status" \notin DOMAIN MsgFields("h1")
    /\ IsStr(machines[MsgId("h1")].online_status, "online")
    /\ machines[MsgId("h1")].last_seen = clock

\* C9: a general-topic message whose payload is an object without
\* machine_id ends with an error reported by the callback.
C9_MissingIdReported ==
    [][\A h \in AllHandlers :
        (/\ hpc[h] = "recv"
         /\ hpc'[h] # "recv"
         /\ ~IsStatusTopic(hmsg[h].topic)
         /\ IsDict(hmsg[h].payload)
         /\ "machine_id" \notin DOMAIN hmsg[h].payload.o) =>
            report'[h] \in {"decode_error", "error"}]_vars

\* The message does not decode: no JSON, no object, or on the general path
\* no machine_id, a machine_id that cannot be a key, or a cpu, memory or
\* storage that is not an object
FailsToDecode(m) ==
    \/ m.payload.t = "garbage"
    \/ m.payload.t # "obj"
    \/ /\ ~IsStatusTopic(m.topic)
       /\ \/ "machine_id" \notin DOMAIN m.payload.o
          \/ m.payload.o.machine_id.t \in {"obj", "list"}
          \/ \E k \in {"cpu", "memory", "storage"} :
                k \in DOMAIN m.payload.o /\ m.payload.o[k].t # "obj"

\* C10: no step of a callback handling a message that does not decode
\* changes the registry; the callback never gets to the print of a stored
\* record, and when it returns it does not hold the lock, so that the next
\* message can be delivered and take the lock.
C10_DecodeFailureDropped ==
    [][\A h \in AllHandlers :
        (hpc'[h] # hpc[h] /\ hpc[h] # "idle" /\ FailsToDecode(hmsg[h])) =>
            /\ machines' = machines
            /\ hpc'[h] \in {"idle", "full_lock", "full_cs"}
            /\ hpc'[h] = "idle" =>
                 /\ lock' # h
                 /\ hmsg'[h] = NoMsg
                 /\ report'[h] \in {"none", "decode_error", "error"}]_vars

\* A callback has returned from a message that did not decode with an
\* error reported, the lock is free, and the registry holds records none of
\* which fails to print
C10_Witness ==
    /\ hpc["h1"] = "idle"
    /\ report["h1"] = "error"
    /\ lock = "free"
    /\ DOMAIN machines # {}
    /\ \A k \in DOMAIN machines : ~PrintRaises(machines[k])

\* A step of a message callback or of the offline detector
ProgramStep == hpc' # hpc \/ dpc' # dpc

\* A step of the holder of a returned value
CallerStepTaken == rpc = "idle" /\ rpc' = "idle" /\ ~ProgramStep /\ rres' # rres

\* C11: once get_machine_status() has returned the whole registry, no step
\* of a message callback (full report, status-only update) or of the
\* offline detector changes anything seen through the returned value.
C11_ReadAllIsolated ==
    [][(/\ rpc = "idle"
        /\ rarg = None
        /\ rres.kind = "dict"
        /\ ProgramStep) => rres' = rres]_vars

\* C12: whatever item the caller assigns in a value get_machine_status
\* returned (a record's online_status, a nested cpu usage), the registry
\* is unchanged.
C12_NoMutationThroughResult ==
    [][CallerStepTaken => machines' = machines]_vars

\* C13: every step that reads or writes machines (the assignment of line
\* 99, the status update, the sweep, get_machine_status, and the read of
\* line 122 for the print) is taken by a thread that holds machines_lock.
C13_EveryAccessLocked ==
    [][/\ \A h \in AllHandlers :
            (hpc[h] \in {"status_cs", "full_cs", "print"} /\ hpc'[h] # hpc[h])
                => lock = h
       /\ \A d \in AllDetectors : SweepStep(d) => lock = d
       /\ ReadStep => lock = "reader"]_vars

\* The step in which handler h left the with block of lines 87-90
StatusStep(h) == hpc[h] = "status_cs" /\ hpc'[h] = "idle"

\* C14: a status-only update for an id that has a record sets that
\* record's online_status to the status the payload states and changes
\* nothing else: its resource fields and last_seen, the other records and
\* the set of ids are as before.
C14_StatusOnlyFrame ==
    [][\A h \in AllHandlers :
        (StatusStep(h) /\ TopicId(hmsg[h].topic) \in DOMAIN machines) =>
            LET id == TopicId(hmsg[h].topic)
            IN  /\ DOMAIN machines' = DOMAIN machines
                /\ \A k \in DOMAIN machines \ {id} : machines'[k] = machines[k]
                /\ Resources(machines'[id]) = Resources(machines[id])
                /\ machines'[id].last_seen = machines[id].last_seen
                /\ machines'[id].online_status = StatusOf(hmsg[h].payload)
                /\ report'[h] = "status"]_vars

\* A status-only update has set OFFLINE a record that was last seen after
\* time 0 and before now, while another machine has a record
C14_Witness ==
    /\ hpc["h1"] = "idle"
    /\ report["h1"] = "status"
    /\ JStr("m1") \in DOMAIN machines
    /\ JStr("m2") \in DOMAIN machines
    /\ IsStr(machines[JStr("m1")].online_status, "offline")
    /\ machines[JStr("m1")].last_seen > 0
    /\ machines[JStr("m1")].last_seen < clock
    /\ marked = {}
    /\ dpc["d1"] = "dead"

\* C15: a sweep keeps the set of ids, and leaves every record either as it
\* was or as it was but for online_status, which is then OFFLINE: it never
\* sets ONLINE, never changes last_seen or a resource field.
C15_SweepFrame ==
    [][\A d \in AllDetectors : SweepStep(d) =>
        /\ DOMAIN machines' = DOMAIN machines
        /\ \A k \in DOMAIN machines :
              /\ machines'[k].last_seen = machines[k].last_seen
              /\ Resources(machines'[k]) = Resources(machines[k])
              /\ \/ machines'[k].online_status = machines[k].online_status
                 \/ IsStr(machines'[k].online_status, "offline")
              /\ ~IsStr(machines'[k].online_status, "online")
                    \/ IsStr(machines[k].online_status, "online")]_vars

\* A sweep has set one record OFFLINE, last seen before the sweep's now,
\* and has left another record, last seen later, ONLINE
C15_Witness ==
    /\ dpc["d1"] = "sleep"
    /\ \E k \in marked :
          /\ IsStr(machines[k].online_status, "offline")
          /\ machines[k].last_seen > 0
          /\ machines[k].last_seen < dnow["d1"]
          /\ \E j \in DOMAIN machines \ marked :
                /\ IsStr(machines[j].online_status, "online")
                /\ machines[j].last_seen > machines[k].last_seen

\* C16: in every reachable state every record's online_status is ONLINE or
\* OFFLINE.
C16_OnlineOrOffline ==
    \A k \in DOMAIN machines :
        \/ IsStr(machines[k].online_status, "online")
        \/ IsStr(machines[k].online_status, "offline")

\* A callback is handling a message for id k
Handling(k) ==
    \E h \in AllHandlers :
        /\ hpc[h] # "idle"
        /\ IsDict(hmsg[h].payload)
        /\ k = (IF IsStatusTopic(hmsg[h].topic) THEN TopicId(hmsg[h].topic)
                ELSE PayloadId(hmsg[h].payload))

\* The record of k is ONLINE, the detector thread is alive, and time can
\* still pass the record's threshold
OnlineAndWatched(k) ==
    /\ k \in DOMAIN machines
    /\ IsStr(machines[k].online_status, "online")
    /\ running
    /\ dpc["d1"] # "dead"
    /\ machines[k].last_seen + offline_threshold < MaxTime

\* C17: an ONLINE record watched by a running detector leads to that
\* record being OFFLINE, unless the subscriber is stopped or a message for
\* the id is handled.
C17_StaleEventuallyOffline ==
    \A k \in {JStr(id) : id \in Ids} :
        OnlineAndWatched(k) ~>
            \/ k \in DOMAIN machines /\ IsStr(machines[k].online_status, "offline")
            \/ ~running
            \/ Handling(k)

\* A sweep at the first time at which a record was stale has marked it,
\* while no message was being handled and the subscriber was running
C17_Witness ==
    /\ dpc["d1"] = "sleep"
    /\ running
    /\ hpc["h1"] = "idle"
    /\ \E k \in marked :
          /\ machines[k].last_seen + offline_threshold + 1 = dnow["d1"]
          /\ IsStr(machines[k].online_status, "offline")

\* A detector thread ends only at the test of `while self.running:`, with
\* running false: never between taking the lock and releasing it
ExitsOnlyAtLoopTest ==
    [][\A d \in AllDetectors :
        (dpc[d] # "dead" /\ dpc'[d] = "dead") =>
            (dpc[d] = "check" /\ ~running /\ lock # d)]_vars

\* Once running is false, a live detector thread ends
StoppedDetectorEnds ==
    \A d \in AllDetectors : (~running /\ dpc[d] # "dead") ~> (dpc[d] = "dead")

\* C18: after stop() every live detector thread sees running false at its
\* loop test and ends, and it ends nowhere else, so a sweep in progress at
\* stop() makes its writes first.
C18_StopEndsDetector == StoppedDetectorEnds /\ ExitsOnlyAtLoopTest

\* C19: no step removes an id from the registry: not a report, a status
\* update, a sweep, a read, the use of a returned value, start() or stop().
C19_NeverDeleted ==
    [][DOMAIN machines \subseteq DOMAIN machines']_vars

\* A record is still there at the last modelled time, long stale and set
\* OFFLINE, after the subscriber was stopped and its detector ended, and
\* after the whole registry was read
C19_Witness ==
    /\ clock = MaxTime
    /\ ~running
    /\ dpc["d1"] = "dead"
    /\ rpc = "idle"
    /\ rarg = None
    /\ rres.kind = "dict"
    /\ \E k \in DOMAIN machines :
          /\ IsStr(machines[k].online_status, "offline")
          /\ machines[k].last_seen + offline_threshold < clock

SummaryStep == spc = "cs" /\ spc' = "idle"

\* The rows are in ascending order of hostname
Ascending(rows) ==
    \A i, j \in 1..Len(rows) : i < j => ~Less(rows[j].hostname, rows[i].hostname)

\* C21: get_machine_status() returns every record of the registry under
\* the registry's keys in the registry's iteration order, and that order
\* changes only when a report adds a new id, which goes last: two calls with
\* no mutation between them return the same records in the same order. The
\* rows print_all_machines prints are in ascending order of hostname, and
\* when it prints to the end there is one row for every record.
C21_StableOrder ==
    [][/\ (ReadStep /\ rarg = None) =>
            /\ rkeys' = order
            /\ DOMAIN rres'.val = DOMAIN machines
            /\ \A k \in DOMAIN machines : rres'.val[k] = machines[k]
       /\ {order[i] : i \in 1..Len(order)} = DOMAIN machines
       /\ Len(order) = Cardinality(DOMAIN machines)
       /\ order' # order =>
            \E h \in AllHandlers :
                /\ UpsertStep(h)
                /\ MsgId(h) \notin DOMAIN machines
                /\ order' = Append(order, MsgId(h))
       /\ SummaryStep =>
            /\ Ascending(summary'.rows)
            /\ summary'.kind = "listed" =>
                  /\ Len(summary'.rows) = Cardinality(DOMAIN machines)
                  /\ {summary'.rows[i].id : i \in 1..Len(summary'.rows)} = DOMAIN machines]_vars

\* get_machine_status() has returned two records, m2 first because it was
\* reported first, and print_all_machines has listed alpha (m1) before
\* beta (m2)
C21_Witness ==
    /\ rpc = "idle"
    /\ rkeys = <<JStr("m2"), JStr("m1")>>
    /\ order = rkeys
    /\ spc = "idle"
    /\ summary.kind = "listed"
    /\ Len(summary.rows) = 2
    /\ summary.rows[1].id = JStr("m1")
    /\ IsStr(summary.rows[1].hostname, "alpha")
    /\ IsStr(summary.rows[2].hostname, "beta")

\* The payload fields f state no item k of the descriptor d (cpu, memory
\* or storage)
NotStated(f, d, k) == d \notin DOMAIN f \/ k \notin DOMAIN f[d].o

\* Every record has every field of the data model
AllFieldsPresent ==
    \A k \in DOMAIN machines :
        /\ DOMAIN machines[k] = {"hostname", "ip_address", "cpu", "memory",
                                 "storage", "online_status", "last_seen"}
        /\ DOMAIN machines[k].cpu = {"model", "cores", "usage_percent"}
        /\ DOMAIN machines[k].memory = {"total", "available", "usage_percent"}
        /\ DOMAIN machines[k].storage = {"total", "free", "usage_percent"}

\* The record rec holds 0 for each numeric field and "Unknown" for each
\* string field other than ip_address that the payload fields f do not state
DefaultedButIp(f, rec) ==
    /\ "hostname" \notin DOMAIN f => IsStr(rec.hostname, "Unknown")
    /\ NotStated(f, "cpu", "model") => IsStr(rec.cpu.model, "Unknown")
    /\ NotStated(f, "cpu", "cores") => IsNum(rec.cpu.cores, 0)
    /\ \A d \in {"cpu", "memory", "storage"} :
          NotStated(f, d, "usage_percent") => IsNum(rec[d].usage_percent, 0)
    /\ \A d \in {"memory", "storage"} :
          NotStated(f, d, "total") => IsStr(rec[d].total, "Unknown")
    /\ NotStated(f, "memory", "available") => IsStr(rec.memory.available, "Unknown")
    /\ NotStated(f, "storage", "free") => IsStr(rec.storage.free, "Unknown")

\* C22 as stated: every record has every field of the data model, and the
\* record a report stores holds 0 for each numeric field and "Unknown" for
\* each string field, ip_address included, that the report does not state.
C22_Original ==
    [][/\ AllFieldsPresent
       /\ \A h \in AllHandlers : UpsertStep(h) =>
            /\ DefaultedButIp(MsgFields(h), machines'[MsgId(h)])
            /\ "ip_address" \notin DOMAIN MsgFields(h) =>
                  IsStr(machines'[MsgId(h)].ip_address, "Unknown")]_vars

\* C22 amended: every record has every field of the data model, and the
\* record a report stores holds 0 for each numeric field, the empty string
\* for ip_address and "Unknown" for each other string field that the
\* report does not state.
C22_FieldsDefaulted ==
    [][/\ AllFieldsPresent
       /\ \A h \in AllHandlers : UpsertStep(h) =>
            /\ DefaultedButIp(MsgFields(h), machines'[MsgId(h)])
            /\ "ip_address" \notin DOMAIN MsgFields(h) =>
                  IsStr(machines'[MsgId(h)].ip_address, "")]_vars

\* A report that states nothing but its machine_id has been stored: the
\* record has the hostname "Unknown" and the ip_address ""
C22_Witness ==
    /\ hpc["h1"] = "print"
    /\ DOMAIN MsgFields("h1") = {"machine_id"}
    /\ IsStr(machines[MsgId("h1")].hostname, "Unknown")
    /\ IsStr(machines[MsgId("h1")].ip_address, "")
    /\ IsNum(machines[MsgId("h1")].cpu.cores, 0)
    /\ Cardinality(DOMAIN machines) = 2

\* C23: a sweep rewrites only records that are ONLINE: a record holding
\* any other status is left exactly as it was and is not reported, however
\* stale it is.
C23_OnlyOnlineSwept ==
    [][\A d \in AllDetectors : SweepStep(d) =>
        \A k \in DOMAIN machines :
            ~IsStr(machines[k].online_status, "online") =>
                machines'[k] = machines[k] /\ k \notin marked']_vars

\* C24: every report stored sets the record's online_status to the one the
\* payload states, ONLINE when it states none, whatever the record held
\* before and whenever that was written.
C24_ReportSetsStatus ==
    [][\A h \in AllHandlers : UpsertStep(h) =>
        /\ machines'[MsgId(h)].online_status = StatedOrOnline(MsgFields(h))
        /\ "online_status" \notin DOMAIN MsgFields(h) =>
              IsStr(machines'[MsgId(h)].online_status, "online")
        /\ machines'[MsgId(h)].last_seen = clock]_vars

\* A report that states no status has replaced a record that was OFFLINE
\* and last seen at this same time (so not set OFFLINE by a sweep but by a
\* status-only message or a report stating it): the record is ONLINE
C24_Witness ==
    /\ hpc["h1"] = "print"
    /\ replaced["h1"].kind = "record"
    /\ IsStr(replaced["h1"].val.online_status, "offline")
    /\ replaced["h1"].val.last_seen = clock
    /\ clock > 0
    /\ "online_status" \notin DOMAIN MsgFields("h1")
    /\ IsStr(machines[MsgId("h1")].online_status, "online")

\* The topic has the form <namespace>/<agent-id>/status
HasStatusForm(topic) ==
    Len(topic) = 3 /\ topic[1] = Namespace /\ topic[3] = "status"

\* The step in which handler h has decoded and classified its message
DispatchStep(h) == hpc[h] = "recv" /\ hpc'[h] # "recv"

\* C25: a message whose payload is an object is handled as a status-only
\* update exactly when its topic has the form <namespace>/<agent-id>/status,
\* and the update then touches only the record of the topic's second
\* segment; a message on any other topic whose payload names a machine_id
\* is handled as a report, stored under the payload's machine_id.
C25_TopicDecides ==
    [][\A h \in AllHandlers :
        /\ (DispatchStep(h) /\ IsDict(hmsg[h].payload)) =>
              /\ hpc'[h] = "status_lock" <=> HasStatusForm(hmsg[h].topic)
              /\ (~HasStatusForm(hmsg[h].topic)
                   /\ "machine_id" \in DOMAIN MsgFields(h)) => hpc'[h] = "full_lock"
        /\ StatusStep(h) =>
              \A k \in DOMAIN machines \ {JStr(hmsg[h].topic[2])} :
                  machines'[k] = machines[k]
        /\ UpsertStep(h) =>
              /\ DOMAIN machines' = DOMAIN machines \cup {MsgId(h)}
              /\ \A k \in DOMAIN machines \ {MsgId(h)} : machines'[k] = machines[k]]_vars

\* The id the message of handler h names: the topic's second segment on
\* a status topic, the payload's machine_id otherwise
NamedId(h) ==
    IF IsStatusTopic(hmsg[h].topic) THEN TopicId(hmsg[h].topic) ELSE MsgId(h)

\* C26: a callback whose message decodes goes through exactly one registry
\* operation: from the dispatch it goes to the with block of the status
\* update or of the upsert, and only the step that leaves that block
\* changes the registry, once; the step changes or adds nothing but the
\* record of the id the message names (a status update for an id without
\* a record changes nothing).
C26_OneMutationOneRecord ==
    [][\A h \in AllHandlers :
        (hpc'[h] # hpc[h] /\ hpc[h] # "idle" /\ ~FailsToDecode(hmsg[h])) =>
            /\ hpc[h] = "recv" =>
                  /\ hpc'[h] = (IF IsStatusTopic(hmsg[h].topic)
                                THEN "status_lock" ELSE "full_lock")
                  /\ machines' = machines
            /\ hpc[h] = "status_lock" => (hpc'[h] = "status_cs" /\ machines' = machines)
            /\ hpc[h] = "full_lock" => (hpc'[h] = "full_cs" /\ machines' = machines)
            /\ hpc[h] = "status_cs" =>
                  /\ hpc'[h] = "idle"
                  /\ DOMAIN machines' = DOMAIN machines
                  /\ NamedId(h) \in DOMAIN machines =>
                        machines' = [machines EXCEPT ![NamedId(h)].online_status =
                                                        StatusOf(hmsg[h].payload)]
                  /\ NamedId(h) \notin DOMAIN machines => machines' = machines
            /\ hpc[h] = "full_cs" =>
                  /\ hpc'[h] = "print"
                  /\ DOMAIN machines' = DOMAIN machines \cup {NamedId(h)}
                  /\ \A k \in DOMAIN machines \ {NamedId(h)} : machines'[k] = machines[k]
                  /\ Resources(machines'[NamedId(h)]) =
                         Resources(SnapshotOf(hmsg[h].payload))
            /\ hpc[h] = "print" => (hpc'[h] = "idle" /\ machines' = machines)]_vars

\* A status-only message has been applied while both machines have a
\* record: m1 holds the status OFFLINE, m2 is ONLINE with its own hostname
C26_Witness ==
    /\ hpc["h1"] = "idle"
    /\ report["h1"] = "status"
    /\ JStr("m1") \in DOMAIN machines
    /\ JStr("m2") \in DOMAIN machines
    /\ IsStr(machines[JStr("m1")].online_status, "offline")
    /\ IsStr(machines[JStr("m2")].online_status, "online")
    /\ IsStr(machines[JStr("m2")].hostname, "beta")

\* C27: when a callback returns having reported an error for its message,
\* the registry is as it was when the message was delivered: the returning
\* step changes nothing, and if the callback had got as far as storing a
\* record, the registry holds what it held under that id before.
C27_ErrorMeansNoChange ==
    [][\A h \in AllHandlers :
        (/\ hpc[h] # "idle"
         /\ hpc'[h] = "idle"
         /\ report'[h] \in {"decode_error", "error"}) =>
            /\ machines' = machines
            /\ hpc[h] = "print" =>
                  /\ replaced[h].kind = "record"
                  /\ replaced[h].val = machines[MsgId(h)]]_vars

\* C28: at most one detector thread is alive at any time, whatever start()
\* and stop() calls were made.
C28_OneDetector ==
    Cardinality({d \in AllDetectors : dpc[d] # "dead"}) <= 1

\* The detector d has sampled its `now` and has not yet run its loop
Sampled(d) == dpc[d] \in {"lock", "cs"}

\* C29: a record stored by a report after a sweep sampled its time is
\* stamped no earlier than the sample, and the sweep leaves every record
\* stamped no earlier than its sample as it is; what the sweep changes, it
\* changes on the status the record has when the loop runs, every report
\* stored before included.
C29_SweepAtomic ==
    [][\A d \in AllDetectors :
        /\ \A h \in AllHandlers :
              (UpsertStep(h) /\ Sampled(d)) =>
                  /\ machines'[MsgId(h)].last_seen >= dnow[d]
                  /\ lock # d
        /\ SweepStep(d) =>
              \A k \in DOMAIN machines :
                  /\ machines[k].last_seen >= dnow[d] => machines'[k] = machines[k]
                  /\ machines'[k] # machines[k] =>
                        /\ ~IsStr(machines[k].online_status, "offline")
                        /\ dnow[d] - machines[k].last_seen > offline_threshold]_vars

\* A sweep has run with a sample older than a report stored since: that
\* record is still ONLINE, while a record stored before the sample was set
\* OFFLINE
C29_Witness ==
    /\ dpc["d1"] = "sleep"
    /\ \E k \in DOMAIN machines \ marked :
          /\ IsStr(machines[k].online_status, "online")
          /\ machines[k].last_seen > dnow["d1"]
    /\ \E j \in marked : IsStr(machines[j].online_status, "offline")

\* The last callback was a status-only update of m1, which is ONLINE with a
\* last_seen older than the threshold, and the detector thread is alive
OnlineByStatusOnly ==
    /\ hpc["h1"] = "idle"
    /\ report["h1"] = "status"
    /\ JStr("m1") \in DOMAIN machines
    /\ IsStr(machines[JStr("m1")].online_status, "online")
    /\ clock - machines[JStr("m1")].last_seen > offline_threshold
    /\ running
    /\ dpc["d1"] # "dead"

\* A status-only update that turns a record from OFFLINE to ONLINE leaves
\* its last_seen, and so its age, as it was
StatusKeepsAge ==
    [][\A h \in AllHandlers : StatusStep(h) =>
        \A k \in DOMAIN machines :
            (/\ IsStr(machines[k].online_status, "offline")
             /\ IsStr(machines'[k].online_status, "online")) =>
                machines'[k].last_seen = machines[k].last_seen]_vars

\* C30: a status-only update that sets a record ONLINE does not advance
\* its last_seen, and a record that is ONLINE after a status-only update
\* while older than the threshold is set OFFLINE again by the detector,
\* unless the subscriber is stopped or another message for the id is
\* handled first.
C30_StatusOnlyNoShield ==
    /\ StatusKeepsAge
    /\ OnlineByStatusOnly ~>
          \/ /\ JStr("m1") \in DOMAIN machines
             /\ IsStr(machines[JStr("m1")].online_status, "offline")
          \/ ~running
          \/ Handling(JStr("m1"))

\* The last sweep set m1 OFFLINE and a status-only update has since set it
\* ONLINE, its last_seen still older than the threshold
C30_Witness ==
    /\ OnlineByStatusOnly
    /\ dpc["d1"] = "sleep"
    /\ JStr("m1") \in marked

\* The thread that holds machines_lock is inside its with block, and a
\* thread inside its with block holds the lock
HolderInBlock ==
    /\ \A h \in AllHandlers : lock = h <=> hpc[h] \in {"status_cs", "full_cs"}
    /\ \A d \in AllDetectors : lock = d <=> dpc[d] = "cs"
    /\ lock = "reader" <=> rpc = "cs"
    /\ lock = "reporter" <=> spc = "cs"

\* The lock is taken only when it is free
TakenWhenFree == [][lock' # lock /\ lock' # "free" => lock = "free"]_vars

\* C31: machines_lock is held only by a thread inside its with block, is
\* taken only when free, and whenever it is held it is released again,
\* whichever path leaves the block (a return, the end, an exception).
C31_LockReleased ==
    /\ []HolderInBlock
    /\ TakenWhenFree
    /\ (lock # "free") ~> (lock = "free")

\* A callback has raised inside its with block and returned, the summary
\* has returned early on the empty registry, and the detector now holds
\* the lock while a reader waits for it
C31_Witness ==
    /\ hpc["h1"] = "idle"
    /\ report["h1"] = "error"
    /\ summary.kind = "empty"
    /\ spc = "idle"
    /\ lock = "d1"
    /\ rpc = "lock"

\* C32: get_machine_status called with a key of the registry returns the
\* record stored under that key.
C32_EveryKeyReadable ==
    [][(ReadStep /\ rarg \in DOMAIN machines) =>
          rres' = [kind |-> "dict", val |-> machines[rarg]]]_vars

\* Everything but the history of the calls of start() and stop()
ButLast == <<machines, order, lock, clock, svars, cfgvars, hvars, dvars, rvars,
             connected, looping, npc, rc>>

\* A call that returned at its first test was start() while running or
\* stop() while not running, and changed nothing
EarlyReturns ==
    [][(mlast' # mlast /\ mlast' \in {"start_noop", "stop_noop"}) =>
          /\ mlast' = "start_noop" <=> running
          /\ UNCHANGED ButLast]_vars

\* start() goes on to connect only when not running, and stop() clears
\* running only when running
ActsOnlyWhenNeeded ==
    [][/\ (mpc = "idle" /\ mpc' = "connecting") => ~running /\ running'
       /\ (mpc = "idle" /\ mpc' = "stopping") => running /\ ~running']_vars

\* start() leaves its connect either running with the network thread and
\* one more detector thread, or, the connect having failed, not running
\* with no thread started
ConnectOutcome ==
    [][(mpc = "connecting" /\ mpc' = "idle") =>
          \/ /\ running'
             /\ looping'
             /\ \E d \in AllDetectors :
                   /\ dpc[d] = "dead"
                   /\ dpc' = [dpc EXCEPT ![d] = "check"]
             /\ mlast' = mlast
          \/ /\ ~running'
             /\ dpc' = dpc
             /\ looping' = looping
             /\ mlast' = "connect_failed"]_vars

\* C33: start() while running and stop() while not running change
\* nothing; a start() whose connect fails ends with running false and no
\* detector thread started.
C33_NoopsAndFailedStart ==
    /\ EarlyReturns
    /\ ActsOnlyWhenNeeded
    /\ ConnectOutcome

\* After a session that was connected and stopped, a start() has failed
\* to connect: running is false and no detector thread is alive
C33_Witness ==
    /\ mlast = "connect_failed"
    /\ mpc = "idle"
    /\ rc = 0
    /\ ~running
    /\ ~looping
    /\ \A d \in AllDetectors : dpc[d] = "dead"

\* client.reconnect() is called only in a state in which running is set
ReconnectOnlyWhileRunning ==
    [][(npc = "reconnect" /\ npc' = "idle") => running]_vars

\* connected is false when _on_disconnect has passed line 134
DisconnectClearsConnected ==
    [][(npc = "disc" /\ npc' # "disc") => ~connected']_vars

\* connected becomes true only in a call of _on_connect with rc 0
ConnectedOnlyByAccept ==
    [][(~connected /\ connected') => (rc' = 0 /\ looping /\ npc = "idle")]_vars

\* C34: a reconnect is attempted only while running is set, so never once
\* stop() has cleared it; connected is false after every _on_disconnect
\* and becomes true only by an _on_connect with rc 0.
C34_ReconnectOnlyWhileRunning ==
    /\ ReconnectOnlyWhileRunning
    /\ DisconnectClearsConnected
    /\ ConnectedOnlyByAccept

====
